---- MODULE Spec2Model ----
(***************************************************************************)
(* warehouse_server: the read-only analytical query service of             *)
(* src/src/main.rs.  The state is the relational snapshot the handlers     *)
(* read (tables Suppliers, Material_Catalog, Storage_Units), the request   *)
(* served last and the HTTP response produced for it.  Every handler is    *)
(* one action: it issues its SQL query through sqlx, matches on the        *)
(* fetched value and the result is projected by AppError::into_response.   *)
(*                                                                         *)
(* SQL NULL / Rust Option<T> is modelled as a sequence of length <= 1:     *)
(* None is << >> and Some(v) is <<v>>.  Amounts are integers (multiples of *)
(* the smallest monetary unit); every value the model reaches is below     *)
(* 2^31 and so exactly representable as the f64 the ::float cast yields.   *)
(* The source's Russian message texts are transliterated to ASCII.         *)
(***************************************************************************)
EXTENDS Integers, Sequences, FiniteSets, TLC

VARIABLES Suppliers, Material_Catalog, Storage_Units, req, resp, calls

vars == <<Suppliers, Material_Catalog, Storage_Units, req, resp, calls>>

-----------------------------------------------------------------------------
(* Bounds of the explored snapshots.                                       *)

NumSuppliers == 4

MaxRows == 2

MaxQty == 1

-----------------------------------------------------------------------------
(* Option<T> and SQL NULL.                                                 *)

None == << >>

Some(v) == <<v>>

IsSome(o) == o # None

Unwrap(o) == o[1]

-----------------------------------------------------------------------------
(* Value domains of the snapshot and of the request parameters.            *)

SupplierIds == 1..NumSuppliers

Cities == {"Riga", "Oslo"}

OptCities == {None} \cup {Some(c) : c \in Cities}

GroupCodes == {"G1", "G2"}

MaterialIds == {10, 11}

Quantities == 0..MaxQty

NameOf(i) == IF i % 2 = 1 THEN "Acme" ELSE "Bolt"

TaxIdOf(i) == IF i = 1 THEN Some("111") ELSE IF i = 2 THEN Some("222") ELSE None

(* An order is placed with one supplier on one date at an agreed unit      *)
(* price; the ledger lines of an order share the three.                    *)
Orders ==
    { [order_number |-> 500, supplier_id |-> 1, date |-> 1, unit_price |-> 2],
      [order_number |-> 501, supplier_id |-> 2, date |-> 2, unit_price |-> 3] }

UnitRows ==
    { [material_id |-> m, supplier_id |-> o.supplier_id,
       order_number |-> o.order_number, date |-> o.date,
       quantity |-> q, unit_price |-> o.unit_price] :
         m \in MaterialIds, o \in Orders, q \in Quantities }

RowKey(r) == (r.material_id * 1000 + r.order_number) * 100 + r.quantity

(* Storage_Units has no key: it is a bag of rows.  A bag is kept as the    *)
(* sequence of its rows in key order; the order in which a query returns   *)
(* rows is chosen by the query, not by this sequence.                      *)
UnitTables ==
    UNION { { t \in [1..n -> UnitRows] :
                \A i \in 1..n, j \in 1..n : i < j => RowKey(t[i]) <= RowKey(t[j]) } :
            n \in 0..MaxRows }

SupplierTables ==
    { { [supplier_id |-> i, name |-> NameOf(i), tax_id |-> TaxIdOf(i),
         bank_address_city |-> c[i]] : i \in SupplierIds } :
      c \in [SupplierIds -> OptCities] }

CatalogTables ==
    { { [material_id |-> 10, material_name |-> "Bolts", class_code |-> Some("C1"),
         group_code |-> "G1"],
        [material_id |-> 11, material_name |-> n, class_code |-> None,
         group_code |-> g] } :
      n \in {"Bolts", "Nuts"}, g \in GroupCodes }

(* The scenario of the specification's section 8, with further suppliers:  *)
(* one in another city, the others with no bank city.                     *)
BaseSuppliers ==
    { [supplier_id |-> i, name |-> NameOf(i), tax_id |-> TaxIdOf(i),
       bank_address_city |->
           IF i = 1 THEN Some("Riga") ELSE IF i = 3 THEN Some("Oslo") ELSE None] :
      i \in SupplierIds }

BaseCatalog ==
    { [material_id |-> 10, material_name |-> "Bolts", class_code |-> Some("C1"),
       group_code |-> "G1"],
      [material_id |-> 11, material_name |-> "Nuts", class_code |-> None,
       group_code |-> "G2"] }

BaseUnits ==
    << [material_id |-> 10, supplier_id |-> 1, order_number |-> 500, date |-> 1,
        quantity |-> 1, unit_price |-> 2] >>

TaxIdParams == {"111", "999"}

CityParams == Cities

GroupParams == GroupCodes

DateParams == {1, 2}

OrderParams == {500, 501}

SupplierIdParams == {1, 2}

(* What the store does with the one query of a request: it answers, or it  *)
(* fails with an sqlx::Error of the given variant.                         *)
StoreErrors == {"Io", "PoolTimedOut"}

StoreFates == {"ok"} \cup StoreErrors

-----------------------------------------------------------------------------
(* Generic helpers.                                                        *)

(* Every order in which the rows of a finite set can be returned.          *)
RECURSIVE Orderings(_)
Orderings(S) ==
    IF S = {} THEN { << >> }
    ELSE UNION { { Append(o, x) : o \in Orderings(S \ {x}) } : x \in S }

RECURSIVE SumOf(_, _)
SumOf(f, S) ==
    IF S = {} THEN 0
    ELSE LET x == CHOOSE y \in S : TRUE IN f[x] + SumOf(f, S \ {x})

(* SQL SUM: NULL over no rows.                                             *)
SqlSum(f, S) == IF S = {} THEN None ELSE Some(SumOf(f, S))

RECURSIVE Gcd(_, _)
Gcd(a, b) == IF b = 0 THEN a ELSE Gcd(b, a % b)

(* The quotient n / d (d > 0, n >= 0) as a fraction in lowest terms; the   *)
(* f64 the query returns is the rounding of this rational.                 *)
Ratio(n, d) == LET g == Gcd(n, d) IN [num |-> n \div g, den |-> d \div g]

(* SQL COALESCE(x, d), NULLIF(x, v) and x / y on nullable operands.        *)
Coalesce(x, d) == IF IsSome(x) THEN x ELSE Some(d)

NullIf(x, v) == IF x = Some(v) THEN None ELSE x

SqlDiv(x, y) ==
    IF IsSome(x) /\ IsSome(y) THEN Some(Ratio(Unwrap(x), Unwrap(y))) ELSE None

(* Storage_Units JOIN Material_Catalog ON material_id: pairs of a ledger   *)
(* line (by position) and its catalog entry.                               *)
UnitsWithCatalog ==
    { <<i, m>> \in (DOMAIN Storage_Units) \X Material_Catalog :
        Storage_Units[i].material_id = m.material_id }

(* Storage_Units JOIN Suppliers ON supplier_id.                            *)
UnitsWithSupplier ==
    { <<i, s>> \in (DOMAIN Storage_Units) \X Suppliers :
        Storage_Units[i].supplier_id = s.supplier_id }

LineQuantity(J) == [j \in J |-> Storage_Units[j[1]].quantity]

LineValue(J) ==
    [j \in J |-> Storage_Units[j[1]].quantity * Storage_Units[j[1]].unit_price]

-----------------------------------------------------------------------------
(* The SQL statements.  Each operator is the set of row sequences the      *)
(* statement may return on the current snapshot: one per order the store   *)
(* is free to return the rows in.                                          *)

SelectSupplierName(tax_id) ==
    { [k \in DOMAIN o |-> [name |-> o[k].name]] :
        o \in Orderings({ s \in Suppliers : s.tax_id = Some(tax_id) }) }

SelectSuppliersByBankCity(city) ==
    { [k \in DOMAIN o |-> [name |-> o[k].name, tax_id |-> o[k].tax_id]] :
        o \in Orderings({ s \in Suppliers : s.bank_address_city = Some(city) }) }

(* The count query without its WHERE bank_address_city IS NOT NULL.         *)
SelectSuppliersPerBank_NoFilter ==
    LET groups == { s.bank_address_city : s \in Suppliers }
        rows   == { [bank_address_city |-> c,
                     supplier_count |->
                         Some(Cardinality({ s \in Suppliers : s.bank_address_city = c }))] :
                    c \in groups }
    IN  { o \in Orderings(rows) :
            \A i \in DOMAIN o, j \in DOMAIN o :
                i < j => Unwrap(o[i].supplier_count) >= Unwrap(o[j].supplier_count) }

SelectSuppliersPerBank ==
    LET kept   == { s \in Suppliers : s.bank_address_city # None }
        groups == { s.bank_address_city : s \in kept }
        rows   == { [bank_address_city |-> c,
                     supplier_count |->
                         Some(Cardinality({ s \in kept : s.bank_address_city = c }))] :
                    c \in groups }
    IN  { o \in Orderings(rows) :
            \A i \in DOMAIN o, j \in DOMAIN o :
                i < j => Unwrap(o[i].supplier_count) >= Unwrap(o[j].supplier_count) }

SelectMaterialsByGroup(group_code) ==
    { [k \in DOMAIN o |->
          [material_name |-> o[k].material_name, class_code |-> o[k].class_code]] :
        o \in Orderings({ m \in Material_Catalog : m.group_code = group_code }) }

(* The period query with an exclusive upper bound (date < $2).             *)
SelectTotalSpent_ExclusiveEnd(start, end) ==
    LET I == { i \in DOMAIN Storage_Units :
                 start <= Storage_Units[i].date /\ Storage_Units[i].date < end }
        value == [i \in I |-> Storage_Units[i].quantity * Storage_Units[i].unit_price]
    IN  { << [total_amount |-> SqlSum(value, I)] >> }

SelectTotalSpent(start, end) ==
    LET I == { i \in DOMAIN Storage_Units :
                 start <= Storage_Units[i].date /\ Storage_Units[i].date <= end }
        value == [i \in I |-> Storage_Units[i].quantity * Storage_Units[i].unit_price]
    IN  { << [total_amount |-> SqlSum(value, I)] >> }

SelectInventoryValue ==
    LET J      == UnitsWithCatalog
        groups == { j[2].material_name : j \in J }
        Of(n)  == { j \in J : j[2].material_name = n }
        rows   == { [material_name |-> n,
                     total_quantity |-> SqlSum(LineQuantity(Of(n)), Of(n)),
                     total_value |-> SqlSum(LineValue(Of(n)), Of(n))] :
                    n \in groups }
    IN  { o \in Orderings(rows) :
            \A i \in DOMAIN o, j \in DOMAIN o :
                i < j => Unwrap(o[i].total_value) >= Unwrap(o[j].total_value) }

(* The share query without COALESCE around the supplier's total.           *)
SelectSupplierShare_NoCoalesce(supplier_id, group_code) ==
    LET GJ == { j \in UnitsWithCatalog : j[2].group_code = group_code }
        SJ == { j \in GJ : Storage_Units[j[1]].supplier_id = supplier_id }
        total_group_value    == SqlSum(LineValue(GJ), GJ)
        total_supplier_value == SqlSum(LineValue(SJ), SJ)
    IN  { << [supplier_share |->
                 SqlDiv(total_supplier_value, NullIf(total_group_value, 0))] >> }

SelectSupplierShare(supplier_id, group_code) ==
    LET GJ == { j \in UnitsWithCatalog : j[2].group_code = group_code }
        SJ == { j \in GJ : Storage_Units[j[1]].supplier_id = supplier_id }
        total_group_value    == SqlSum(LineValue(GJ), GJ)
        total_supplier_value == SqlSum(LineValue(SJ), SJ)
    IN  { << [supplier_share |->
                 SqlDiv(Coalesce(total_supplier_value, 0),
                        NullIf(total_group_value, 0))] >> }

(* The bank-info query with a LEFT JOIN whose filter sits in the ON        *)
(* clause: every ledger line is returned, the lines of other orders too.   *)
SelectBankInfo_FilterInJoin(order_number) ==
    { [k \in DOMAIN o |->
          [bank_address_city |-> o[k][2].bank_address_city,
           total_amount |-> Some(Storage_Units[o[k][1]].quantity
                                   * Storage_Units[o[k][1]].unit_price)]] :
        o \in Orderings(UnitsWithSupplier) }

SelectBankInfo(order_number) ==
    { [k \in DOMAIN o |->
          [bank_address_city |-> o[k][2].bank_address_city,
           total_amount |-> Some(Storage_Units[o[k][1]].quantity
                                   * Storage_Units[o[k][1]].unit_price)]] :
        o \in Orderings({ j \in UnitsWithSupplier :
                            Storage_Units[j[1]].order_number = order_number }) }

-----------------------------------------------------------------------------
(* sqlx: one store round trip per fetch.                                   *)

(* Display text of an sqlx::Error, raw store detail included.              *)
SqlxText(variant) ==
    IF variant = "Io" THEN "error communicating with database: connection reset"
    ELSE IF variant = "PoolTimedOut"
         THEN "pool timed out while waiting for an open connection"
    ELSE "no rows returned by a query that expected to return at least one row"

SqlxError(variant) ==
    [source |-> "sqlx", variant |-> variant, text |-> <<SqlxText(variant)>>]

Ok(v) == [ok |-> TRUE, val |-> v]

Err(e) == [ok |-> FALSE, err |-> e]

fetch_optional(fate, rows) ==
    IF fate # "ok" THEN Err(SqlxError(fate))
    ELSE IF rows = << >> THEN Ok(None)
    ELSE Ok(Some(rows[1]))

fetch_all(fate, rows) ==
    IF fate # "ok" THEN Err(SqlxError(fate)) ELSE Ok(rows)

fetch_one(fate, rows) ==
    IF fate # "ok" THEN Err(SqlxError(fate))
    ELSE IF rows = << >> THEN Err(SqlxError("RowNotFound"))
    ELSE Ok(rows[1])

-----------------------------------------------------------------------------
(* Error wrapper and its projection onto an HTTP response.                 *)

OK == 200

NOT_FOUND == 404

INTERNAL_SERVER_ERROR == 500

(* anyhow::anyhow!(...): an ad-hoc error whose text is the formatted       *)
(* message, kept as the sequence of its literal and interpolated pieces.   *)
anyhow(pieces) == [source |-> "anyhow", variant |-> "adhoc", text |-> pieces]

(* impl From<E> for AppError: wraps the error unchanged.                   *)
AppError(e) == [inner |-> e]

(* The projection with the sqlx error's own text as the message.           *)
into_response_RawText(self) ==
    LET picked ==
          IF self.inner.source = "sqlx" /\ self.inner.variant = "RowNotFound"
          THEN <<NOT_FOUND, <<"Resource not found">> >>
          ELSE <<INTERNAL_SERVER_ERROR, self.inner.text>>
    IN  [status |-> picked[1],
         body |-> [status |-> "error", message |-> picked[2]]]

into_response(self) ==
    LET picked ==
          IF self.inner.source = "sqlx"
          THEN IF self.inner.variant = "RowNotFound"
               THEN <<NOT_FOUND, <<"Resource not found">> >>
               ELSE <<INTERNAL_SERVER_ERROR, <<"Database error">> >>
          ELSE <<INTERNAL_SERVER_ERROR, self.inner.text>>
    IN  [status |-> picked[1],
         body |-> [status |-> "error", message |-> picked[2]]]

(* Ok(Json(v)): the payload with the default status.                       *)
Json(v) == [status |-> OK, body |-> v]

(* axum's IntoResponse for HandlerResult<T>.                               *)
Respond(result) == IF result.ok THEN Json(result.val) ELSE into_response(result.err)

-----------------------------------------------------------------------------
(* The service.                                                            *)

(* The snapshots explored: the reference scenario with every assignment of *)
(* bank cities to the suppliers, and the reference suppliers with every    *)
(* catalog and every ledger of at most MaxRows lines.                      *)
Snapshots ==
    { <<s, BaseCatalog, BaseUnits>> : s \in SupplierTables }
      \cup { <<BaseSuppliers, c, u>> : c \in CatalogTables, u \in UnitTables }

NoRequest == [op |-> "none", args |-> << >>, store |-> "unused"]

Init ==
    /\ \E snap \in Snapshots :
          /\ Suppliers = snap[1]
          /\ Material_Catalog = snap[2]
          /\ Storage_Units = snap[3]
    /\ req = NoRequest
    /\ resp = [status |-> 0, body |-> None]
    /\ calls = 0

(* A request served: the handler's result, projected, is the response; n   *)
(* store round trips were issued for it.  No handler writes a table.       *)
Serve(op, args, fate, result, n) ==
    /\ req' = [op |-> op, args |-> args, store |-> fate]
    /\ resp' = Respond(result)
    /\ calls' = n
    /\ UNCHANGED <<Suppliers, Material_Catalog, Storage_Units>>

(* What a query brings back: one of the statement's row sequences when    *)
(* the store answers, nothing when it fails.                               *)
Returned(fate, results) == IF fate = "ok" THEN results ELSE { << >> }

(* 1. GET /api/suppliers/by-tax/{tax_id}                                   *)
get_supplier_name_by_tax ==
    \E tax_id \in TaxIdParams, fate \in StoreFates :
      \E rows \in Returned(fate, SelectSupplierName(tax_id)) :
        LET result == fetch_optional(fate, rows)
        IN  Serve("get_supplier_name_by_tax", <<tax_id>>, fate,
                  IF ~result.ok THEN Err(AppError(result.err))
                  ELSE IF IsSome(result.val) THEN Ok(Unwrap(result.val))
                  ELSE Err(AppError(anyhow(
                           <<"Postavshchik s INN ", tax_id, " ne naiden">>))),
                  1)

(* 2. GET /api/suppliers/by-bank-city/{city}                               *)
get_suppliers_by_bank_city ==
    \E city \in CityParams, fate \in StoreFates :
      \E rows \in Returned(fate, SelectSuppliersByBankCity(city)) :
        LET suppliers == fetch_all(fate, rows)
        IN  Serve("get_suppliers_by_bank_city", <<city>>, fate,
                  IF ~suppliers.ok THEN Err(AppError(suppliers.err))
                  ELSE Ok(suppliers.val),
                  1)

(* 3. GET /api/analytics/bank-supplier-count                               *)
get_suppliers_per_bank ==
    \E fate \in StoreFates :
      \E rows \in Returned(fate, SelectSuppliersPerBank) :
        LET counts == fetch_all(fate, rows)
        IN  Serve("get_suppliers_per_bank", << >>, fate,
                  IF ~counts.ok THEN Err(AppError(counts.err)) ELSE Ok(counts.val),
                  1)

(* 4. GET /api/materials/by-group/{group_code}                             *)
get_materials_by_group ==
    \E group_code \in GroupParams, fate \in StoreFates :
      \E rows \in Returned(fate, SelectMaterialsByGroup(group_code)) :
        LET assortment == fetch_all(fate, rows)
        IN  Serve("get_materials_by_group", <<group_code>>, fate,
                  IF ~assortment.ok THEN Err(AppError(assortment.err))
                  ELSE Ok(assortment.val),
                  1)

(* 5. GET /api/finance/total-spent?start=...&end=...                       *)
get_total_spent_by_period ==
    \E start \in DateParams, end \in DateParams, fate \in StoreFates :
      \E rows \in Returned(fate, SelectTotalSpent(start, end)) :
        LET result == fetch_one(fate, rows)
        IN  Serve("get_total_spent_by_period", <<start, end>>, fate,
                  IF ~result.ok THEN Err(AppError(result.err)) ELSE Ok(result.val),
                  1)

(* 6. GET /api/inventory/withdrawn: a stub that touches no table.          *)
get_withdrawn_materials ==
    \E start \in DateParams, end \in DateParams :
        Serve("get_withdrawn_materials", <<start, end>>, "unused",
              Err(AppError(anyhow(
                  <<"Metod ne realizovan: otsutstvuet tablitsa raskhoda">>))),
              0)

(* 7. GET /api/inventory/stock-value                                       *)
get_current_inventory_value ==
    \E fate \in StoreFates :
      \E rows \in Returned(fate, SelectInventoryValue) :
        LET inventory == fetch_all(fate, rows)
        IN  Serve("get_current_inventory_value", << >>, fate,
                  IF ~inventory.ok THEN Err(AppError(inventory.err))
                  ELSE Ok(inventory.val),
                  1)

(* 8. GET /api/analytics/supplier-share/{supplier_id}/{group_code}         *)
get_supplier_share ==
    \E supplier_id \in SupplierIdParams, group_code \in GroupParams,
       fate \in StoreFates :
      \E rows \in Returned(fate, SelectSupplierShare(supplier_id, group_code)) :
        LET share == fetch_one(fate, rows)
        IN  Serve("get_supplier_share", <<supplier_id, group_code>>, fate,
                  IF ~share.ok THEN Err(AppError(share.err)) ELSE Ok(share.val),
                  1)

(* 10. GET /api/orders/{order_number}/bank-info                            *)
get_bank_info_by_order ==
    \E order_number \in OrderParams, fate \in StoreFates :
      \E rows \in Returned(fate, SelectBankInfo(order_number)) :
        LET info == fetch_optional(fate, rows)
        IN  Serve("get_bank_info_by_order", <<order_number>>, fate,
                  IF ~info.ok THEN Err(AppError(info.err))
                  ELSE IF IsSome(info.val) THEN Ok(Unwrap(info.val))
                  ELSE Err(AppError(anyhow(
                           <<"Order s nomerom ", order_number, " ne naiden">>))),
                  1)

Next ==
    \/ get_supplier_name_by_tax
    \/ get_suppliers_by_bank_city
    \/ get_suppliers_per_bank
    \/ get_materials_by_group
    \/ get_total_spent_by_period
    \/ get_withdrawn_materials
    \/ get_current_inventory_value
    \/ get_supplier_share
    \/ get_bank_info_by_order

Spec == Init /\ [][Next]_vars

-----------------------------------------------------------------------------
(* Vocabulary of the properties, computed from the tables directly.        *)

(* The request served last asked for op and the store answered its query.  *)
Answered(op) == req.op = op /\ req.store = "ok"

(* Sum of quantity * unit_price over the ledger positions in keep, by a    *)
(* left-to-right pass over the ledger.                                     *)
ValueAt(keep) ==
    LET acc[n \in 0..Len(Storage_Units)] ==
          IF n = 0 THEN 0
          ELSE acc[n - 1]
                 + (IF n \in keep
                    THEN Storage_Units[n].quantity * Storage_Units[n].unit_price
                    ELSE 0)
    IN  acc[Len(Storage_Units)]

QuantityAt(keep) ==
    LET acc[n \in 0..Len(Storage_Units)] ==
          IF n = 0 THEN 0
          ELSE acc[n - 1] + (IF n \in keep THEN Storage_Units[n].quantity ELSE 0)
    IN  acc[Len(Storage_Units)]

LinesOfMaterial(material_id) ==
    { i \in DOMAIN Storage_Units : Storage_Units[i].material_id = material_id }

LinesOfGroup(group_code) ==
    { i \in DOMAIN Storage_Units :
        \E m \in Material_Catalog :
            m.material_id = Storage_Units[i].material_id /\ m.group_code = group_code }

LinesOfOrder(order_number) ==
    { i \in DOMAIN Storage_Units : Storage_Units[i].order_number = order_number }

LinesInPeriod(start, end) ==
    { i \in DOMAIN Storage_Units :
        Storage_Units[i].date >= start /\ Storage_Units[i].date <= end }

StockedMaterials == { m \in Material_Catalog : LinesOfMaterial(m.material_id) # {} }

ListOps ==
    { "get_suppliers_by_bank_city", "get_suppliers_per_bank",
      "get_materials_by_group", "get_current_inventory_value" }

(* Every string a table row holds.                                         *)
RowStrings ==
    { s.name : s \in Suppliers }
      \cup UNION { { x[k] : k \in DOMAIN x } :
                   x \in { s.tax_id : s \in Suppliers }
                           \cup { s.bank_address_city : s \in Suppliers }
                           \cup { m.class_code : m \in Material_Catalog } }
      \cup { m.material_name : m \in Material_Catalog }
      \cup { m.group_code : m \in Material_Catalog }

RawErrorTexts == { SqlxText(e) : e \in StoreErrors }

-----------------------------------------------------------------------------
(* C1: supplier-name-by-tax-id lookup is read-through cached: a lookup of  *)
(* tax identifier t that starts after a successful lookup of t returns the *)
(* identical name and performs no store round trip.                        *)
C1_SecondLookupServedFromCache ==
    [][ ( /\ req.op = "get_supplier_name_by_tax"
          /\ resp.status = OK
          /\ req'.op = "get_supplier_name_by_tax"
          /\ req'.args = req.args )
        => ( /\ calls' = 0
             /\ resp'.status = OK
             /\ resp'.body = resp.body ) ]_vars

(* C2: when the store answers a supplier-name or bank-info lookup with no  *)
(* matching row, the response is 404 not found, never 500.                 *)
C2_NoRowIsNotFound ==
    /\ ( /\ Answered("get_supplier_name_by_tax")
         /\ ~ \E s \in Suppliers : s.tax_id = Some(req.args[1]) )
       => resp.status = NOT_FOUND
    /\ ( /\ Answered("get_bank_info_by_order")
         /\ LinesOfOrder(req.args[1]) = {} )
       => resp.status = NOT_FOUND

(* C3: the withdrawn-materials report never answers with the status that a *)
(* store error or any other internal error is projected onto.              *)
C3_NotImplementedIsDistinct ==
    req.op = "get_withdrawn_materials"
      => /\ \A e \in StoreErrors :
              resp.status # into_response(AppError(SqlxError(e))).status
         /\ resp.status # into_response(AppError(anyhow(<<"internal error">>))).status

(* C4: supplier share of (s, g), when the store answers, is a success:     *)
(* with G the value of the ledger lines of group g and S that of supplier  *)
(* s among them, the ratio is absent if g has no lines or G = 0, and       *)
(* otherwise equals S / G (0 when s has no line in g).                     *)
C4_SupplierShare ==
    Answered("get_supplier_share") =>
      LET inGroup    == LinesOfGroup(req.args[2])
          ofSupplier == { i \in inGroup : Storage_Units[i].supplier_id = req.args[1] }
          G == ValueAt(inGroup)
          S == ValueAt(ofSupplier)
          share == resp.body.supplier_share
      IN  /\ resp.status = OK
          /\ (inGroup = {} \/ G = 0) => share = None
          /\ (inGroup # {} /\ G # 0) =>
               /\ IsSome(share)
               /\ Unwrap(share).den > 0
               /\ Unwrap(share).num * G = S * Unwrap(share).den
               /\ (ofSupplier = {} => Unwrap(share).num = 0)

C4_Witness ==
    /\ Answered("get_supplier_share")
    /\ resp.status = OK
    /\ IsSome(resp.body.supplier_share)
    /\ Unwrap(resp.body.supplier_share).num > 0
    /\ Unwrap(resp.body.supplier_share).num < Unwrap(resp.body.supplier_share).den

(* C5: total spend of [start, end], when the store answers, is a success   *)
(* whose total is the value of exactly the ledger lines dated within the   *)
(* inclusive bounds, and is absent (not zero) when no line matches.        *)
C5_TotalSpent ==
    Answered("get_total_spent_by_period") =>
      LET lines == LinesInPeriod(req.args[1], req.args[2])
      IN  /\ resp.status = OK
          /\ resp.body.total_amount =
               (IF lines = {} THEN None ELSE Some(ValueAt(lines)))

C5_Witness ==
    /\ Answered("get_total_spent_by_period")
    /\ resp.status = OK
    /\ IsSome(resp.body.total_amount)
    /\ Unwrap(resp.body.total_amount) > 0
    /\ \E i \in DOMAIN Storage_Units :
          /\ Storage_Units[i].date = req.args[2]
          /\ Storage_Units[i].quantity > 0
    /\ \E i \in DOMAIN Storage_Units : Storage_Units[i].date < req.args[1]

(* C6: current inventory value lists exactly one entry per catalog entry   *)
(* that has ledger lines, carrying the quantity and value of that          *)
(* material's lines alone, ordered by total value descending.              *)
C6_OneEntryPerMaterial ==
    Answered("get_current_inventory_value") =>
      /\ resp.status = OK
      /\ Len(resp.body) = Cardinality(StockedMaterials)
      /\ \A m \in StockedMaterials :
            \E k \in DOMAIN resp.body :
              /\ resp.body[k].material_name = m.material_name
              /\ resp.body[k].total_quantity
                   = Some(QuantityAt(LinesOfMaterial(m.material_id)))
              /\ resp.body[k].total_value
                   = Some(ValueAt(LinesOfMaterial(m.material_id)))
      /\ \A i \in DOMAIN resp.body, j \in DOMAIN resp.body :
            i < j => Unwrap(resp.body[i].total_value)
                       >= Unwrap(resp.body[j].total_value)

(* C7: bank info of an order number that matches exactly one ledger line   *)
(* is a success with the bank city of that line's supplier (absent when    *)
(* the supplier has none) and that line's quantity * unit_price.           *)
C7_BankInfoSingleLine ==
    ( /\ Answered("get_bank_info_by_order")
      /\ Cardinality(LinesOfOrder(req.args[1])) = 1 )
    => LET i == CHOOSE k \in LinesOfOrder(req.args[1]) : TRUE
           supplier == CHOOSE s \in Suppliers :
                         s.supplier_id = Storage_Units[i].supplier_id
       IN  /\ resp.status = OK
           /\ resp.body.bank_address_city = supplier.bank_address_city
           /\ resp.body.total_amount
                = Some(Storage_Units[i].quantity * Storage_Units[i].unit_price)

C7_Witness ==
    /\ Answered("get_bank_info_by_order")
    /\ Cardinality(LinesOfOrder(req.args[1])) = 1
    /\ Len(Storage_Units) = MaxRows
    /\ resp.status = OK
    /\ resp.body.bank_address_city = None
    /\ resp.body.total_amount = Some(3)

(* C8: supplier count per bank city has one entry for each distinct        *)
(* non-absent bank city and none for the absent city, each count is the    *)
(* number of suppliers of that city, and counts never increase along the   *)
(* sequence.                                                               *)
C8_SuppliersPerBank ==
    Answered("get_suppliers_per_bank") =>
      LET cities == { c \in Cities : \E s \in Suppliers : s.bank_address_city = Some(c) }
      IN  /\ resp.status = OK
          /\ Len(resp.body) = Cardinality(cities)
          /\ \A c \in cities :
                \E k \in DOMAIN resp.body :
                  /\ resp.body[k].bank_address_city = Some(c)
                  /\ resp.body[k].supplier_count
                       = Some(Cardinality({ s \in Suppliers :
                                              s.bank_address_city = Some(c) }))
          /\ \A k \in DOMAIN resp.body : resp.body[k].bank_address_city # None
          /\ \A i \in DOMAIN resp.body, j \in DOMAIN resp.body :
                i < j => Unwrap(resp.body[i].supplier_count)
                           >= Unwrap(resp.body[j].supplier_count)

C8_Witness ==
    /\ Answered("get_suppliers_per_bank")
    /\ resp.status = OK
    /\ \E s \in Suppliers : s.bank_address_city = None
    /\ Len(resp.body) = 2
    /\ resp.body[1].supplier_count = Some(2)
    /\ resp.body[2].supplier_count = Some(1)

(* C9: every list-returning operation is deterministic: two calls with the *)
(* same parameters on the same snapshot return the same sequence in the    *)
(* same order.                                                             *)
C9_ListsAreDeterministic ==
    [][ ( /\ req.op \in ListOps
          /\ req' = req
          /\ resp.status = OK
          /\ resp'.status = OK )
        => resp'.body = resp.body ]_vars

(* C10: when the store fails to complete the query, the operation issues   *)
(* no further store call and answers 500 with a message that holds neither *)
(* row data nor the store's raw error text.                                *)
C10_StoreFailureIsSanitized ==
    req.store \in StoreErrors =>
      /\ calls = 1
      /\ resp.status = INTERNAL_SERVER_ERROR
      /\ resp.body.status = "error"
      /\ \A k \in DOMAIN resp.body.message :
            /\ resp.body.message[k] \notin RowStrings
            /\ resp.body.message[k] \notin RawErrorTexts

C10_Witness ==
    /\ req.op = "get_bank_info_by_order"
    /\ req.store = "PoolTimedOut"
    /\ LinesOfOrder(req.args[1]) # {}
    /\ calls = 1
    /\ resp.status = INTERNAL_SERVER_ERROR

====
